---- MODULE Spec2Model ----
(***************************************************************************)
(* Model of server.py: the four in-memory registers (USERS, LOCATIONS,     *)
(* FRIENDS, INVITES), the FastAPI handlers and the aiogram handlers.       *)
(*                                                                         *)
(* Scheduling.  The FastAPI handlers are plain `def` functions, which      *)
(* FastAPI runs on worker threads; the aiogram handlers are coroutines on  *)
(* the event loop thread and have no await before their last statement.    *)
(* The interpreter may switch threads after any call, so the model takes   *)
(* one step per access to a shared register: a dict or set method call is  *)
(* atomic, a handler made of several such calls is not.  Handlers of the   *)
(* event loop never interleave with each other, only with the workers.     *)
(*                                                                         *)
(* resp is the HTTP response a handler has just returned.  It leaves the    *)
(* process (Deliver) before any other step is taken, so a state with a     *)
(* response shows it with the registers as they were at the return.        *)
(***************************************************************************)
EXTENDS Integers, Sequences, FiniteSets, TLC

VARIABLES USERS, LOCATIONS, FRIENDS, INVITES, now, pc, frame, resp, calls,
          lastReport, stable, minted

vars == <<USERS, LOCATIONS, FRIENDS, INVITES, now, pc, frame, resp, calls,
          lastReport, stable, minted>>

-----------------------------------------------------------------------------
(* Bounds of the model *)

\* mutating requests (start, location, invite, accept) begun in one behaviour
MaxCalls == 3
\* the wall clock reads 0 to MaxTime seconds
MaxTime == 1

\* user identifiers: 0 is falsy in Python; 0 and 8 share a slot of an 8-slot set
UserIds == {0, 1, 8}
\* the values secrets.token_urlsafe can return
Codes == {"c1", "c2"}
\* m.from_user of an incoming message: full_name, username
FromUsers == {[full_name |-> "", username |-> "None"],
              [full_name |-> "Ann", username |-> "ann"]}
\* m.location of an incoming message: latitude, longitude, live_period (-1: absent)
MsgLocations == {[latitude |-> 1, longitude |-> 3, live_period |-> -1],
                 [latitude |-> 2, longitude |-> 4, live_period |-> 60]}

(* Two worker threads serve the HTTP requests.  A handler that takes one     *)
(* step (me, friends, invite) is atomic, and two friends-locations requests  *)
(* write nothing and so cannot affect each other: the model lets both        *)
(* workers serve accept and has Reader alone serve the other requests.       *)
Workers == {"w1", "w2"}
Reader == "w2"
Bot == "bot"
Threads == Workers \cup {Bot}

-----------------------------------------------------------------------------
(* Python values *)

\* None where an integer may stand (identifiers of the model are naturals)
None == -1
\* None where a string may stand
NoneStr == "None"

\* truth value of an int-or-None: None and 0 are falsy
Truthy(x) == x # None /\ x # 0

\* dict.get(k, default)
DictGet(d, k, default) == IF k \in DOMAIN d THEN d[k] ELSE default

\* d[k] = v
DictPut(d, k, v) == [x \in DOMAIN d \cup {k} |-> IF x = k THEN v ELSE d[x]]

\* mutant: setdefault stores v also when the key is there
DictSetDefault_Overwrite(d, k, v) == DictPut(d, k, v)

\* d.setdefault(k, v): the dict afterwards
DictSetDefault(d, k, v) == IF k \in DOMAIN d THEN d ELSE DictPut(d, k, v)

(* A Python set of small ints: an open-addressing table of 8 slots holding  *)
(* the key or None; hash(k) = k, first slot k mod 8, then the perturbed     *)
(* probe i -> 5i + 1 + perturb.  A set of the model never holds more than   *)
(* two keys, so the table never resizes.                                    *)
Slots == 0..7
EmptySet == [i \in Slots |-> None]

RECURSIVE ProbeSlot(_, _, _, _)
ProbeSlot(tbl, k, i, perturb) ==
    IF tbl[i] = None \/ tbl[i] = k THEN i
    ELSE ProbeSlot(tbl, k, (i * 5 + 1 + (perturb \div 32)) % 8, perturb \div 32)

\* mutant: the set is replaced by one that holds k alone
SetAdd_Replace(tbl, k) == [EmptySet EXCEPT ![k % 8] = k]

\* set.add(k)
SetAdd(tbl, k) == [tbl EXCEPT ![ProbeSlot(tbl, k, k % 8, k)] = k]

\* the members of a set
SetElems(tbl) == {tbl[i] : i \in Slots} \ {None}

\* len(set)
SetLen(tbl) == Cardinality(SetElems(tbl))

\* sorted(list(S))
RECURSIVE SortedList(_)
SortedList(S) ==
    IF S = {} THEN <<>>
    ELSE LET m == CHOOSE x \in S : \A y \in S : x <= y
         IN <<m>> \o SortedList(S \ {m})

-----------------------------------------------------------------------------
(* State after import of the module: the registers are empty *)

IdleFrame == [op |-> "none"]
NoResp == [op |-> "none"]

Init ==
    /\ USERS = <<>>
    /\ LOCATIONS = <<>>
    /\ FRIENDS = <<>>
    /\ INVITES = <<>>
    /\ now = 0
    /\ pc = [t \in Threads |-> "idle"]
    /\ frame = [t \in Threads |-> IdleFrame]
    /\ resp = NoResp
    /\ calls = 0
    /\ lastReport = <<>>
    /\ stable = [t \in Workers |-> TRUE]
    /\ minted = {}

\* no response is waiting to leave
Quiet == resp = NoResp

\* the response leaves the process
Deliver ==
    /\ resp # NoResp
    /\ resp' = NoResp
    /\ UNCHANGED <<USERS, LOCATIONS, FRIENDS, INVITES, minted, now, pc, frame, calls,
                   lastReport, stable>>

\* the handler running on worker t returns the response r
Return(t, r) ==
    /\ pc' = [pc EXCEPT ![t] = "idle"]
    /\ frame' = [frame EXCEPT ![t] = IdleFrame]
    /\ resp' = r

(* History: while worker t serves a friends-locations request, stable[t]     *)
(* says that FRIENDS and LOCATIONS have not changed since the request began; *)
(* it is TRUE for a worker serving no such request.                          *)
Disturb(self, keep) ==
    stable' = [t \in Workers |->
                  IF t = self THEN keep
                  ELSE IF frame[t].op = "friends_locations"
                          /\ (FRIENDS' # FRIENDS \/ LOCATIONS' # LOCATIONS)
                       THEN FALSE ELSE stable[t]]

-----------------------------------------------------------------------------
(* GET /api/me *)

\* line 60: the stored profile, or the placeholder
MeProfile(user_id) ==
    DictGet(USERS, user_id, [id |-> user_id, name |-> "Unknown", username |-> NoneStr])

\* mutant: the placeholder is stored (setdefault instead of get)
ApiMe_Creates(t) ==
    /\ Quiet
    /\ pc[t] = "idle"
    /\ \E user_id \in UserIds :
          LET u == MeProfile(user_id)
          IN /\ USERS' = DictSetDefault(USERS, user_id, u)
             /\ Return(t, [op |-> "me", status |-> 200, user_id |-> user_id,
                           body |-> [id |-> user_id, name |-> u.name,
                                     username |-> u.username]])
    /\ UNCHANGED <<LOCATIONS, FRIENDS, INVITES, minted, now, calls, lastReport, stable>>

ApiMe(t) ==
    /\ Quiet
    /\ pc[t] = "idle"
    /\ \E user_id \in UserIds :
          LET u == MeProfile(user_id)
          IN Return(t, [op |-> "me", status |-> 200, user_id |-> user_id,
                        body |-> [id |-> user_id, name |-> u.name,
                                  username |-> u.username]])
    /\ UNCHANGED <<USERS, LOCATIONS, FRIENDS, INVITES, minted, now, calls, lastReport, stable>>

-----------------------------------------------------------------------------
(* GET /api/friends *)

(* FRIENDS.get(user_id, set()) fetches a reference and list() copies the     *)
(* set in one call: the response is the set's content at one instant.        *)
FriendsOf(user_id) == SetElems(DictGet(FRIENDS, user_id, EmptySet))

\* mutant: the lookup stores an empty set for an unknown user (setdefault)
ApiFriends_SetDefault(t) ==
    /\ Quiet
    /\ pc[t] = "idle"
    /\ \E user_id \in UserIds :
          /\ FRIENDS' = DictSetDefault(FRIENDS, user_id, EmptySet)
          /\ Return(t, [op |-> "friends", status |-> 200, user_id |-> user_id,
                        body |-> SortedList(FriendsOf(user_id))])
    /\ UNCHANGED <<USERS, LOCATIONS, INVITES, minted, now, calls, lastReport>>
    /\ Disturb(t, TRUE)

ApiFriends(t) ==
    /\ Quiet
    /\ pc[t] = "idle"
    /\ \E user_id \in UserIds :
          Return(t, [op |-> "friends", status |-> 200, user_id |-> user_id,
                     body |-> SortedList(FriendsOf(user_id))])
    /\ UNCHANGED <<USERS, LOCATIONS, FRIENDS, INVITES, minted, now, calls, lastReport, stable>>

-----------------------------------------------------------------------------
(* GET /api/friends-locations *)

(* Lines 69-71: friend_ids is the live set of FRIENDS when user_id is a key, *)
(* else a fresh empty set that no other thread can reach; the for statement  *)
(* creates a set iterator, which records the set's length.  History: due is  *)
(* the set of users who are friends of user_id, both ways, and have a        *)
(* position when the request begins.                                         *)
ApiFriendsLocationsBegin(t) ==
    /\ Quiet
    /\ pc[t] = "idle"
    /\ \E user_id \in UserIds :
          /\ frame' = [frame EXCEPT ![t] =
                [op |-> "friends_locations", user_id |-> user_id,
                 live |-> user_id \in DOMAIN FRIENDS,
                 si_used |-> SetLen(DictGet(FRIENDS, user_id, EmptySet)),
                 si_pos |-> 0, fid |-> None, res |-> <<>>,
                 due |-> {b \in FriendsOf(user_id) :
                             /\ user_id \in FriendsOf(b)
                             /\ b \in DOMAIN LOCATIONS}]]
    /\ pc' = [pc EXCEPT ![t] = "for"]
    /\ resp' = NoResp
    /\ UNCHANGED <<USERS, LOCATIONS, FRIENDS, INVITES, minted, now, calls, lastReport, stable>>

\* the set the iterator of worker t walks
IterSet(t) == IF frame[t].live THEN FRIENDS[frame[t].user_id] ELSE EmptySet

\* the first occupied slot at or after i, 8 when there is none
RECURSIVE NextSlot(_, _)
NextSlot(tbl, i) ==
    IF i > 7 THEN 8 ELSE IF tbl[i] # None THEN i ELSE NextSlot(tbl, i + 1)

(* Line 71, one call of the iterator: RuntimeError("Set changed size during  *)
(* iteration") when the set's length differs from the recorded one (the      *)
(* handler ends in an unhandled exception, a 500 response); else the next    *)
(* key, or the end of the loop and line 82.                                  *)
ApiFriendsLocationsNext(t) ==
    /\ Quiet
    /\ pc[t] = "for"
    /\ LET f == frame[t]
           tbl == IterSet(t)
           i == NextSlot(tbl, f.si_pos)
       IN IF f.si_used # SetLen(tbl)
          THEN /\ Return(t, [op |-> "friends_locations", status |-> 500,
                             user_id |-> f.user_id, body |-> <<>>,
                             stable |-> stable[t], due |-> f.due])
               /\ stable' = [stable EXCEPT ![t] = TRUE]
          ELSE IF i > 7
          THEN /\ Return(t, [op |-> "friends_locations", status |-> 200,
                             user_id |-> f.user_id, body |-> f.res,
                             stable |-> stable[t], due |-> f.due])
               /\ stable' = [stable EXCEPT ![t] = TRUE]
          ELSE /\ frame' = [frame EXCEPT ![t].si_pos = i + 1, ![t].fid = tbl[i]]
               /\ pc' = [pc EXCEPT ![t] = "body"]
               /\ resp' = NoResp
               /\ UNCHANGED stable
    /\ UNCHANGED <<USERS, LOCATIONS, FRIENDS, INVITES, minted, now, calls, lastReport>>

\* lines 75-81: the entry appended for friend fid with position record loc
LocationEntry(fid, loc) ==
    [user_id |-> fid, lat |-> loc.lat, lon |-> loc.lon,
     updated_at |-> loc.updated_at, is_live |-> loc.is_live]

\* mutant: a friend without a position is reported with empty fields
BodyResult_NullEntry(res, fid) ==
    IF fid \in DOMAIN LOCATIONS
    THEN Append(res, LocationEntry(fid, LOCATIONS[fid]))
    ELSE Append(res, [user_id |-> fid, lat |-> None, lon |-> None,
                      updated_at |-> None, is_live |-> FALSE])

\* lines 72-81: res after the loop body for fid (a stored record is never falsy)
BodyResult(res, fid) ==
    IF fid \in DOMAIN LOCATIONS
    THEN Append(res, LocationEntry(fid, LOCATIONS[fid]))
    ELSE res

ApiFriendsLocationsBody(t) ==
    /\ Quiet
    /\ pc[t] = "body"
    /\ frame' = [frame EXCEPT ![t].res = BodyResult(frame[t].res, frame[t].fid),
                              ![t].fid = None]
    /\ pc' = [pc EXCEPT ![t] = "for"]
    /\ resp' = NoResp
    /\ UNCHANGED <<USERS, LOCATIONS, FRIENDS, INVITES, minted, now, calls, lastReport, stable>>

-----------------------------------------------------------------------------
(* POST /api/invite *)

\* mutant: a new invite replaces the owner's earlier ones
ApiInvite_OnePerOwner(t) ==
    /\ Quiet
    /\ pc[t] = "idle"
    /\ calls < MaxCalls
    /\ calls' = calls + 1
    /\ \E user_id \in UserIds, code \in Codes :
          /\ INVITES' = [c \in {x \in DOMAIN INVITES : INVITES[x] # user_id} \cup {code}
                            |-> IF c = code THEN user_id ELSE INVITES[c]]
          /\ minted' = minted \cup {<<code, user_id>>}
          /\ Return(t, [op |-> "invite", status |-> 200, user_id |-> user_id,
                        body |-> code])
    /\ UNCHANGED <<USERS, LOCATIONS, FRIENDS, now, lastReport, stable>>

(* secrets.token_urlsafe(8) returns any token; line 88 stores it without     *)
(* looking whether the ledger holds it.  History: minted holds every pair    *)
(* of code and owner that line 88 has stored.                                *)
ApiInvite(t) ==
    /\ Quiet
    /\ pc[t] = "idle"
    /\ calls < MaxCalls
    /\ calls' = calls + 1
    /\ \E user_id \in UserIds, code \in Codes :
          /\ INVITES' = DictPut(INVITES, code, user_id)
          /\ minted' = minted \cup {<<code, user_id>>}
          /\ Return(t, [op |-> "invite", status |-> 200, user_id |-> user_id,
                        body |-> code])
    /\ UNCHANGED <<USERS, LOCATIONS, FRIENDS, now, lastReport, stable>>

-----------------------------------------------------------------------------
(* POST /api/accept and add_friend *)

\* mutant: the check of the requester against the owner is missing
AcceptRejects_NoSelfCheck(owner, user_id) == ~Truthy(owner)

\* mutant: the check for an unknown code is missing
AcceptRejects_NoUnknownCheck(owner, user_id) == owner = user_id

\* line 94
AcceptRejects(owner, user_id) == ~Truthy(owner) \/ owner = user_id

\* mutant: the lookup takes the code out of the ledger (pop instead of get)
ApiAcceptLookup_Pop(t) ==
    /\ Quiet
    /\ pc[t] = "idle"
    /\ calls < MaxCalls
    /\ calls' = calls + 1
    /\ \E user_id \in UserIds, code \in Codes :
          LET owner == DictGet(INVITES, code, None)
          IN /\ INVITES' = [c \in DOMAIN INVITES \ {code} |-> INVITES[c]]
             /\ IF AcceptRejects(owner, user_id)
                THEN Return(t, [op |-> "accept", status |-> 400,
                                user_id |-> user_id, code |-> code,
                                body |-> [ok |-> FALSE]])
                ELSE /\ frame' = [frame EXCEPT ![t] =
                           [op |-> "accept", user_id |-> user_id, code |-> code,
                            a |-> owner, b |-> user_id]]
                     /\ pc' = [pc EXCEPT ![t] = "setdefault_a"]
                     /\ resp' = NoResp
    /\ UNCHANGED <<USERS, LOCATIONS, FRIENDS, minted, now, lastReport, stable>>

\* lines 93-95, and the call of add_friend(owner, user_id) entered
ApiAcceptLookup(t) ==
    /\ Quiet
    /\ pc[t] = "idle"
    /\ calls < MaxCalls
    /\ calls' = calls + 1
    /\ \E user_id \in UserIds, code \in Codes :
          LET owner == DictGet(INVITES, code, None)
          IN IF AcceptRejects(owner, user_id)
             THEN Return(t, [op |-> "accept", status |-> 400, user_id |-> user_id,
                             code |-> code, body |-> [ok |-> FALSE]])
             ELSE /\ frame' = [frame EXCEPT ![t] =
                        [op |-> "accept", user_id |-> user_id, code |-> code,
                         a |-> owner, b |-> user_id]]
                  /\ pc' = [pc EXCEPT ![t] = "setdefault_a"]
                  /\ resp' = NoResp
    /\ UNCHANGED <<USERS, LOCATIONS, FRIENDS, INVITES, minted, now, lastReport, stable>>

\* line 40: FRIENDS.setdefault(a, set())
AddFriendSetdefaultA(t) ==
    /\ Quiet
    /\ pc[t] = "setdefault_a"
    /\ FRIENDS' = DictSetDefault(FRIENDS, frame[t].a, EmptySet)
    /\ pc' = [pc EXCEPT ![t] = "add_b"]
    /\ resp' = NoResp
    /\ UNCHANGED <<USERS, LOCATIONS, INVITES, minted, now, frame, calls, lastReport>>
    /\ Disturb(t, TRUE)

\* line 40: .add(b)
AddFriendAddB(t) ==
    /\ Quiet
    /\ pc[t] = "add_b"
    /\ FRIENDS' = [FRIENDS EXCEPT ![frame[t].a] = SetAdd(@, frame[t].b)]
    /\ pc' = [pc EXCEPT ![t] = "setdefault_b"]
    /\ resp' = NoResp
    /\ UNCHANGED <<USERS, LOCATIONS, INVITES, minted, now, frame, calls, lastReport>>
    /\ Disturb(t, TRUE)

\* line 41: FRIENDS.setdefault(b, set())
AddFriendSetdefaultB(t) ==
    /\ Quiet
    /\ pc[t] = "setdefault_b"
    /\ FRIENDS' = DictSetDefault(FRIENDS, frame[t].b, EmptySet)
    /\ pc' = [pc EXCEPT ![t] = "add_a"]
    /\ resp' = NoResp
    /\ UNCHANGED <<USERS, LOCATIONS, INVITES, minted, now, frame, calls, lastReport>>
    /\ Disturb(t, TRUE)

\* mutant: the second half of the edge is never written
AddFriendAddA_OneWay(t) ==
    /\ Quiet
    /\ pc[t] = "add_a"
    /\ Return(t, [op |-> "accept", status |-> 200, user_id |-> frame[t].user_id,
                  code |-> frame[t].code, body |-> [ok |-> TRUE]])
    /\ UNCHANGED <<USERS, LOCATIONS, FRIENDS, INVITES, minted, now, calls, lastReport, stable>>

\* mutant: the invite is consumed by the acceptance
AddFriendAddA_SingleUse(t) ==
    /\ Quiet
    /\ pc[t] = "add_a"
    /\ FRIENDS' = [FRIENDS EXCEPT ![frame[t].b] = SetAdd(@, frame[t].a)]
    /\ INVITES' = [c \in DOMAIN INVITES \ {frame[t].code} |-> INVITES[c]]
    /\ Return(t, [op |-> "accept", status |-> 200, user_id |-> frame[t].user_id,
                  code |-> frame[t].code, body |-> [ok |-> TRUE]])
    /\ UNCHANGED <<USERS, LOCATIONS, now, calls, lastReport, minted>>
    /\ Disturb(t, TRUE)

\* line 41: .add(a); line 97
AddFriendAddA(t) ==
    /\ Quiet
    /\ pc[t] = "add_a"
    /\ FRIENDS' = [FRIENDS EXCEPT ![frame[t].b] = SetAdd(@, frame[t].a)]
    /\ Return(t, [op |-> "accept", status |-> 200, user_id |-> frame[t].user_id,
                  code |-> frame[t].code, body |-> [ok |-> TRUE]])
    /\ UNCHANGED <<USERS, LOCATIONS, INVITES, minted, now, calls, lastReport>>
    /\ Disturb(t, TRUE)

-----------------------------------------------------------------------------
(* The bot: /start and a location message *)

\* lines 115-119 and 149-153: the profile built from m.from_user
Profile(id, from_user) ==
    [id |-> id,
     name |-> IF from_user.full_name = "" THEN "User" ELSE from_user.full_name,
     username |-> from_user.username]

\* lines 115-119
BotStart ==
    /\ Quiet
    /\ pc[Bot] = "idle"
    /\ calls < MaxCalls
    /\ calls' = calls + 1
    /\ \E id \in UserIds, from_user \in FromUsers :
          USERS' = DictPut(USERS, id, Profile(id, from_user))
    /\ resp' = NoResp
    /\ UNCHANGED <<LOCATIONS, FRIENDS, INVITES, minted, now, pc, frame, lastReport, stable>>

\* mutant: a location message creates no profile
GotLocationSetdefault_NoProfile ==
    /\ Quiet
    /\ pc[Bot] = "idle"
    /\ calls < MaxCalls
    /\ calls' = calls + 1
    /\ \E id \in UserIds, from_user \in FromUsers, loc \in MsgLocations :
          /\ USERS' = USERS
          /\ frame' = [frame EXCEPT ![Bot] =
                [op |-> "location", id |-> id, from_user |-> from_user,
                 loc |-> loc]]
    /\ pc' = [pc EXCEPT ![Bot] = "store"]
    /\ resp' = NoResp
    /\ UNCHANGED <<LOCATIONS, FRIENDS, INVITES, minted, now, lastReport, stable>>

\* mutant: a location message replaces the stored profile
GotLocationSetdefault_Overwrites ==
    /\ Quiet
    /\ pc[Bot] = "idle"
    /\ calls < MaxCalls
    /\ calls' = calls + 1
    /\ \E id \in UserIds, from_user \in FromUsers, loc \in MsgLocations :
          /\ USERS' = DictPut(USERS, id, Profile(id, from_user))
          /\ frame' = [frame EXCEPT ![Bot] =
                [op |-> "location", id |-> id, from_user |-> from_user,
                 loc |-> loc]]
    /\ pc' = [pc EXCEPT ![Bot] = "store"]
    /\ resp' = NoResp
    /\ UNCHANGED <<LOCATIONS, FRIENDS, INVITES, minted, now, lastReport, stable>>

\* lines 148-153
GotLocationSetdefault ==
    /\ Quiet
    /\ pc[Bot] = "idle"
    /\ calls < MaxCalls
    /\ calls' = calls + 1
    /\ \E id \in UserIds, from_user \in FromUsers, loc \in MsgLocations :
          /\ USERS' = DictSetDefault(USERS, id, Profile(id, from_user))
          /\ frame' = [frame EXCEPT ![Bot] =
                [op |-> "location", id |-> id, from_user |-> from_user,
                 loc |-> loc]]
    /\ pc' = [pc EXCEPT ![Bot] = "store"]
    /\ resp' = NoResp
    /\ UNCHANGED <<LOCATIONS, FRIENDS, INVITES, minted, now, lastReport, stable>>

\* lines 154-159: the record stored for the location loc at time ts
LocationRecord(loc, ts) ==
    [lat |-> loc.latitude, lon |-> loc.longitude, updated_at |-> ts,
     is_live |-> Truthy(loc.live_period)]

\* lines 36-37: int(time.time()) is the wall clock, which never runs backwards
now_ts(ts) == ts \in now..(IF now < MaxTime THEN now + 1 ELSE now)

\* mutant: the first stored position is kept (setdefault instead of assignment)
GotLocationStore_FirstWins ==
    /\ Quiet
    /\ pc[Bot] = "store"
    /\ \E ts \in 0..MaxTime :
          /\ now_ts(ts)
          /\ now' = ts
          /\ LOCATIONS' = DictSetDefault(LOCATIONS, frame[Bot].id,
                                         LocationRecord(frame[Bot].loc, ts))
          /\ lastReport' = DictPut(lastReport, frame[Bot].id,
                                   [loc |-> frame[Bot].loc, received |-> ts,
                                    n |-> DictGet(lastReport, frame[Bot].id,
                                                  [n |-> 0]).n + 1])
    /\ pc' = [pc EXCEPT ![Bot] = "idle"]
    /\ frame' = [frame EXCEPT ![Bot] = IdleFrame]
    /\ resp' = NoResp
    /\ UNCHANGED <<USERS, FRIENDS, INVITES, minted, calls>>
    /\ Disturb(Bot, TRUE)

(* Lines 154-159.  History: lastReport[id] is the last location message of   *)
(* id that the handler stored, the time at which it did, and how many         *)
(* messages of id it has stored.                                             *)
GotLocationStore ==
    /\ Quiet
    /\ pc[Bot] = "store"
    /\ \E ts \in 0..MaxTime :
          /\ now_ts(ts)
          /\ now' = ts
          /\ LOCATIONS' = DictPut(LOCATIONS, frame[Bot].id,
                                  LocationRecord(frame[Bot].loc, ts))
          /\ lastReport' = DictPut(lastReport, frame[Bot].id,
                                   [loc |-> frame[Bot].loc, received |-> ts,
                                    n |-> DictGet(lastReport, frame[Bot].id,
                                                  [n |-> 0]).n + 1])
    /\ pc' = [pc EXCEPT ![Bot] = "idle"]
    /\ frame' = [frame EXCEPT ![Bot] = IdleFrame]
    /\ resp' = NoResp
    /\ UNCHANGED <<USERS, FRIENDS, INVITES, minted, calls>>
    /\ Disturb(Bot, TRUE)

-----------------------------------------------------------------------------

Next ==
    \/ Deliver
    \/ BotStart
    \/ GotLocationSetdefault
    \/ GotLocationStore
    \/ ApiMe(Reader)
    \/ ApiFriends(Reader)
    \/ ApiFriendsLocationsBegin(Reader)
    \/ ApiFriendsLocationsNext(Reader)
    \/ ApiFriendsLocationsBody(Reader)
    \/ ApiInvite(Reader)
    \/ \E t \in Workers :
          \/ ApiAcceptLookup(t)
          \/ AddFriendSetdefaultA(t)
          \/ AddFriendAddB(t)
          \/ AddFriendSetdefaultB(t)
          \/ AddFriendAddA(t)

Spec == Init /\ [][Next]_vars

(* A later moment of the same program, from which the behaviours that need  *)
(* more requests than MaxCalls are followed: user 1 has created the invite  *)
(* "c1" (lines 84-89) and users 0 and 8, neither of whom sent /start, have   *)
(* each reported a position at second 0 (lines 146-160).  Spec reaches this  *)
(* state, but for the count of calls, with its three calls.                  *)
InitOrder ==
    /\ USERS = [u \in {0, 8} |->
                   Profile(u, [full_name |-> "", username |-> NoneStr])]
    /\ LOCATIONS = [u \in {0, 8} |->
                       LocationRecord([latitude |-> 1, longitude |-> 3,
                                       live_period |-> None], 0)]
    /\ FRIENDS = <<>>
    /\ INVITES = [c \in {"c1"} |-> 1]
    /\ now = 0
    /\ pc = [t \in Threads |-> "idle"]
    /\ frame = [t \in Threads |-> IdleFrame]
    /\ resp = NoResp
    /\ calls = 0
    /\ lastReport = [u \in {0, 8} |->
                        [loc |-> [latitude |-> 1, longitude |-> 3,
                                  live_period |-> None],
                         received |-> 0, n |-> 1]]
    /\ stable = [t \in Workers |-> TRUE]
    /\ minted = {<<"c1", 1>>}

SpecOrder == InitOrder /\ [][Next]_vars

-----------------------------------------------------------------------------
(* Vocabulary of the properties *)

\* no worker is inside add_friend
NoAcceptRunning == \A t \in Workers : frame[t].op # "accept"

\* this step takes up the request acceptInvite(code, user_id)
AcceptCalled(code, user_id) ==
    \/ /\ resp'.op = "accept"
       /\ resp'.status = 400
       /\ resp'.code = code
       /\ resp'.user_id = user_id
    \/ \E t \in Workers :
          /\ pc[t] = "idle"
          /\ pc'[t] = "setdefault_a"
          /\ frame'[t].code = code
          /\ frame'[t].user_id = user_id

\* the elements of a sequence
Range(seq) == {seq[i] : i \in 1..Len(seq)}

-----------------------------------------------------------------------------
(* C1: whenever no acceptInvite is in progress, b is a friend of a exactly   *)
(* when a is a friend of b.                                                  *)
C1_FriendshipSymmetry ==
    NoAcceptRunning =>
        \A a, b \in UserIds : (b \in FriendsOf(a)) <=> (a \in FriendsOf(b))

\* an edge written by a completed acceptInvite
C1_Witness ==
    /\ NoAcceptRunning
    /\ resp.op = "accept"
    /\ resp.status = 200
    /\ 8 \in FriendsOf(1)
    /\ 1 \in FriendsOf(8)

(* C2: acceptInvite is rejected only for a code that is not in the ledger or *)
(* whose owner is the requester, whatever integer the owner is.              *)
C2_AcceptFailsOnlyForUnknownOrOwnCode ==
    (resp.op = "accept" /\ resp.status = 400) =>
        \/ resp.code \notin DOMAIN INVITES
        \/ INVITES[resp.code] = resp.user_id

(* C3: acceptInvite with a code that is not in the ledger, or whose owner is *)
(* the requester, returns the 400 response with ok = false in that step and  *)
(* leaves USERS, LOCATIONS, FRIENDS and INVITES unchanged.                   *)
C3_RejectedLeavesRegisters ==
    [][\A code \in Codes, user_id \in UserIds :
          (/\ AcceptCalled(code, user_id)
           /\ (code \notin DOMAIN INVITES \/ INVITES[code] = user_id))
          => /\ resp' = [op |-> "accept", status |-> 400, user_id |-> user_id,
                         code |-> code, body |-> [ok |-> FALSE]]
             /\ UNCHANGED <<USERS, LOCATIONS, FRIENDS, INVITES>>]_vars

\* a user's acceptance of their own invite was rejected
C3_Witness ==
    /\ resp.op = "accept"
    /\ resp.status = 400
    /\ resp.code \in DOMAIN INVITES
    /\ INVITES[resp.code] = resp.user_id
    /\ resp.user_id # 0

(* C4: no user is ever a friend of themself, also while an acceptInvite is   *)
(* in progress.                                                              *)
C4_NoSelfFriendship == \A u \in UserIds : u \notin FriendsOf(u)

\* a graph with an edge, and the owner's acceptance of their own invite refused
C4_Witness ==
    /\ resp.op = "accept"
    /\ resp.status = 400
    /\ resp.code \in DOMAIN INVITES
    /\ INVITES[resp.code] = resp.user_id
    /\ FriendsOf(resp.user_id) # {}

\* what getFriendsPositions(u) is to hold, from the registers
ExpectedEntries(u) ==
    {[user_id |-> f, lat |-> LOCATIONS[f].lat, lon |-> LOCATIONS[f].lon,
      updated_at |-> LOCATIONS[f].updated_at, is_live |-> LOCATIONS[f].is_live] :
        f \in {x \in UserIds : x \in FriendsOf(u) /\ x \in DOMAIN LOCATIONS}}

(* C5: a getFriendsPositions(u) during which FRIENDS and LOCATIONS did not   *)
(* change returns one entry for each friend of u that has a position, with   *)
(* that friend's record, and nothing else.                                   *)
C5_FriendsPositionsExact ==
    (resp.op = "friends_locations" /\ resp.stable) =>
        /\ resp.status = 200
        /\ Range(resp.body) = ExpectedEntries(resp.user_id)
        /\ Len(resp.body) = Cardinality(ExpectedEntries(resp.user_id))

\* a response with the friend's position, the reader having none of their own
C5_Witness ==
    /\ resp.op = "friends_locations"
    /\ resp.stable
    /\ Len(resp.body) = 1
    /\ resp.user_id \notin DOMAIN LOCATIONS

(* C6: LOCATIONS holds a record exactly for the users who reported, built    *)
(* from the user's last report and the time it was received, and storing a   *)
(* report of one user changes no other user's record.                        *)
C6_LastWriteWins ==
    /\ [](/\ DOMAIN LOCATIONS = DOMAIN lastReport
          /\ \A u \in DOMAIN lastReport :
                LOCATIONS[u] = [lat |-> lastReport[u].loc.latitude,
                                lon |-> lastReport[u].loc.longitude,
                                updated_at |-> lastReport[u].received,
                                is_live |-> lastReport[u].loc.live_period # None])
    /\ [][\A u \in DOMAIN LOCATIONS :
             (pc[Bot] = "store" /\ frame[Bot].id # u)
             => (u \in DOMAIN LOCATIONS' /\ LOCATIONS'[u] = LOCATIONS[u])]_vars

\* a user's second report, a one-shot position stored at second 1
C6_Witness ==
    \E u \in DOMAIN lastReport :
        /\ lastReport[u].n = 2
        /\ lastReport[u].received = 1
        /\ LOCATIONS[u].lat = 1
        /\ pc[Bot] = "idle"

(* C7 as claimed: once a code maps to an owner, it maps to that owner in     *)
(* every later state.                                                        *)
C7_InviteImmutable ==
    [][\A c \in DOMAIN INVITES :
          c \in DOMAIN INVITES' /\ INVITES'[c] = INVITES[c]]_vars

(* C7: no step removes a code from the ledger, and the ledger changes only   *)
(* in a createInvite step, which maps the token it drew to its caller.       *)
C7_InviteKeptAndWrittenOnlyByInvite ==
    [][/\ DOMAIN INVITES \subseteq DOMAIN INVITES'
       /\ INVITES' # INVITES =>
             /\ resp'.op = "invite"
             /\ INVITES' = DictPut(INVITES, resp'.body, resp'.user_id)]_vars

\* two codes minted and an invite accepted
C7_Witness ==
    /\ DOMAIN INVITES = Codes
    /\ resp.op = "accept"
    /\ resp.status = 200

(* C8: no step of acceptInvite changes the ledger, and an acceptInvite for a *)
(* code the ledger maps to an owner (other than user 0) is taken up for      *)
(* every requester other than that owner and then returns success, however   *)
(* often the code was accepted before.                                       *)
C8_InviteReusable ==
    [][/\ \A code \in Codes, user_id \in UserIds :
             (/\ AcceptCalled(code, user_id)
              /\ code \in DOMAIN INVITES
              /\ Truthy(INVITES[code])
              /\ INVITES[code] # user_id)
             => /\ \E t \in Workers : pc[t] = "idle" /\ pc'[t] = "setdefault_a"
                /\ INVITES' = INVITES
       /\ \A t \in Workers :
             frame[t].op = "accept" /\ frame'[t].op # "accept"
             => /\ resp' = [op |-> "accept", status |-> 200,
                            user_id |-> frame[t].user_id, code |-> frame[t].code,
                            body |-> [ok |-> TRUE]]
                /\ INVITES' = INVITES
                /\ frame[t].code \in DOMAIN INVITES']_vars

\* the one code of the ledger has made two requesters friends of its owner
C8_Witness ==
    /\ calls = 3
    /\ DOMAIN INVITES = {"c1"}
    /\ INVITES["c1"] = 1
    /\ FriendsOf(1) = {0, 8}
    /\ resp.op = "accept"
    /\ resp.status = 200

(* C9: a getFriends(a) response never names a friend b while a is missing    *)
(* from FRIENDS[b].                                                          *)
C9_ReaderSeesSymmetricGraph ==
    resp.op = "friends" =>
        \A b \in Range(resp.body) : resp.user_id \in FriendsOf(b)

(* C10: getFriendsPositions never ends in an error.                          *)
C10_FriendsPositionsTotal ==
    resp.op = "friends_locations" => resp.status = 200

(* C11: a getFriendsPositions response lists its entries in ascending order  *)
(* of the friend's identifier, the order of getFriends, whatever the order   *)
(* in which the friendships were made.                                       *)
C11_FriendsPositionsSorted ==
    (resp.op = "friends_locations" /\ resp.status = 200 /\ resp.stable) =>
        \A i, j \in 1..Len(resp.body) :
            i < j => resp.body[i].user_id < resp.body[j].user_id

(* C12: in every state, the states between the two steps of reportPosition   *)
(* included, every user who has a position has a profile.                    *)
C12_PositionImpliesProfile == DOMAIN LOCATIONS \subseteq DOMAIN USERS

(* a second user's report is between its two steps while a request for the   *)
(* friends' positions is being served                                        *)
C12_Witness ==
    /\ pc[Bot] = "store"
    /\ LOCATIONS # <<>>
    /\ frame[Bot].id \notin DOMAIN LOCATIONS
    /\ pc[Reader] = "for"

(* C13: a getFriendsPositions(a) that begins when b is a friend of a and has *)
(* a position returns an entry for b, and that entry is b's stored record    *)
(* when no report arrived during the request.                                *)
C13_FriendPositionAlwaysListed ==
    resp.op = "friends_locations" =>
        \A b \in resp.due :
            \E i \in 1..Len(resp.body) :
                /\ resp.body[i].user_id = b
                /\ resp.stable => resp.body[i] = LocationEntry(b, LOCATIONS[b])

(* C14: no step removes a key of FRIENDS or a member of any FRIENDS[u], and  *)
(* FRIENDS changes only in a step of add_friend, taken by a worker whose     *)
(* acceptInvite passed the check of line 94, and only at the two users of    *)
(* that request: /start, a location message, createInvite, a rejected        *)
(* acceptInvite and the reads leave FRIENDS as it is.                        *)
C14_FriendsOnlyGrowByAccept ==
    [][/\ \A u \in DOMAIN FRIENDS :
             /\ u \in DOMAIN FRIENDS'
             /\ SetElems(FRIENDS[u]) \subseteq SetElems(FRIENDS'[u])
       /\ FRIENDS' # FRIENDS =>
             \E t \in Workers :
                /\ frame[t].op = "accept"
                /\ pc'[t] # pc[t]
                /\ ~(~Truthy(frame[t].a) \/ frame[t].a = frame[t].b)
                /\ \A u \in DOMAIN FRIENDS' \ {frame[t].a, frame[t].b} :
                      u \in DOMAIN FRIENDS /\ FRIENDS'[u] = FRIENDS[u]]_vars

\* a location message of user 8 is being handled, 1 and 8 being friends
C14_Witness ==
    /\ NoAcceptRunning
    /\ FriendsOf(1) = {8}
    /\ FriendsOf(8) = {1}
    /\ pc[Bot] = "store"
    /\ frame[Bot].id = 8

\* a and b are in each other's sets
Friends(a, b) == b \in FriendsOf(a) /\ a \in FriendsOf(b)

(* C15: in the state a successful acceptInvite(code, user_id) leaves, where  *)
(* the ledger maps code to an owner that line 94 lets pass and the owner and *)
(* the requester are in each other's sets, a further acceptInvite(code,      *)
(* user_id) is taken up, none of its steps changes USERS, LOCATIONS,         *)
(* FRIENDS or INVITES, and it returns success.                               *)
C15_AcceptIdempotent ==
    [][/\ \A code \in Codes, user_id \in UserIds :
             (/\ AcceptCalled(code, user_id)
              /\ code \in DOMAIN INVITES
              /\ Truthy(INVITES[code])
              /\ INVITES[code] # user_id
              /\ Friends(INVITES[code], user_id))
             => /\ \E t \in Workers :
                      /\ pc[t] = "idle"
                      /\ pc'[t] = "setdefault_a"
                      /\ frame'[t].a = INVITES[code]
                      /\ frame'[t].b = user_id
                /\ UNCHANGED <<USERS, LOCATIONS, FRIENDS, INVITES>>
       /\ \A t \in Workers :
             (/\ frame[t].op = "accept"
              /\ pc'[t] # pc[t]
              /\ Friends(frame[t].a, frame[t].b))
             => /\ UNCHANGED <<USERS, LOCATIONS, FRIENDS, INVITES>>
                /\ pc'[t] = "idle" =>
                      (resp'.op = "accept" /\ resp'.status = 200
                       /\ resp'.body.ok /\ resp'.code = frame[t].code
                       /\ resp'.user_id = frame[t].user_id)]_vars

(* the only request in progress is an acceptInvite of user 8 for the code of *)
(* user 1, who are friends already, before its last statement                *)
C15_Witness ==
    /\ pc["w1"] = "add_a"
    /\ pc["w2"] = "idle"
    /\ pc[Bot] = "idle"
    /\ frame["w1"].a = 1
    /\ frame["w1"].b = 8
    /\ INVITES[frame["w1"].code] = 1
    /\ Friends(1, 8)

(* C16 as claimed: after getProfile(u) has returned, u is a key of USERS.    *)
C16_ProfileQueryCreatesUser ==
    resp.op = "me" => resp.user_id \in DOMAIN USERS

(* C16: getProfile(u) changes none of the registers; for a user that is not  *)
(* a key of USERS it returns the placeholder, name "Unknown" and no          *)
(* username, and the user is still not a key afterwards.  A key of USERS is  *)
(* created only by a step of the bot, for /start or a location message.      *)
C16_ProfileQueryCreatesNothing ==
    [][/\ resp'.op = "me" =>
             /\ UNCHANGED <<USERS, LOCATIONS, FRIENDS, INVITES>>
             /\ resp'.status = 200
             /\ resp'.user_id \notin DOMAIN USERS =>
                   resp'.body = [id |-> resp'.user_id, name |-> "Unknown",
                                 username |-> NoneStr]
             /\ resp'.user_id \in DOMAIN USERS =>
                   resp'.body = USERS[resp'.user_id]
       /\ DOMAIN USERS' # DOMAIN USERS =>
             /\ pc[Bot] = "idle"
             /\ calls' = calls + 1
             /\ resp' = NoResp
             /\ \A t \in Workers : pc'[t] = pc[t]]_vars

\* the placeholder returned for a user without a record, another user having one
C16_Witness ==
    /\ resp.op = "me"
    /\ resp.body.name = "Unknown"
    /\ resp.body.username = NoneStr
    /\ resp.user_id \notin DOMAIN USERS
    /\ USERS # <<>>

(* C17: the first step of reportPosition(id) leaves LOCATIONS, FRIENDS and   *)
(* INVITES unchanged, keeps every stored profile, that of id included, and   *)
(* adds a profile of id, built from the message, when id had none; the       *)
(* second step leaves USERS, FRIENDS and INVITES unchanged and changes no    *)
(* position but that of id.                                                  *)
C17_ReportChangesOnlyOwnPosition ==
    [][/\ (pc[Bot] = "idle" /\ pc'[Bot] = "store") =>
             /\ UNCHANGED <<LOCATIONS, FRIENDS, INVITES>>
             /\ \A u \in DOMAIN USERS :
                   u \in DOMAIN USERS' /\ USERS'[u] = USERS[u]
             /\ DOMAIN USERS' = DOMAIN USERS \cup {frame'[Bot].id}
             /\ frame'[Bot].id \notin DOMAIN USERS =>
                   USERS'[frame'[Bot].id] =
                      Profile(frame'[Bot].id, frame'[Bot].from_user)
       /\ (pc[Bot] = "store" /\ pc'[Bot] = "idle") =>
             /\ UNCHANGED <<USERS, FRIENDS, INVITES>>
             /\ DOMAIN LOCATIONS' = DOMAIN LOCATIONS \cup {frame[Bot].id}
             /\ \A u \in DOMAIN LOCATIONS \ {frame[Bot].id} :
                   LOCATIONS'[u] = LOCATIONS[u]]_vars

(* a location message is being handled whose sender has a stored profile    *)
(* that differs from the one the message would give, an invite existing     *)
C17_Witness ==
    /\ pc[Bot] = "store"
    /\ USERS[frame[Bot].id] # Profile(frame[Bot].id, frame[Bot].from_user)
    /\ INVITES # <<>>

(* C18 as claimed: for every b in FRIENDS[a] the ledger holds a code whose   *)
(* owner is a or b.                                                          *)
C18_EdgeBackedByLedger ==
    \A a \in UserIds : \A b \in FriendsOf(a) :
        \E c \in DOMAIN INVITES : INVITES[c] \in {a, b}

(* C18: for every b in FRIENDS[a], createInvite has stored a code for a or   *)
(* for b, and the ledger still maps that code to that user unless            *)
(* createInvite has stored the same code for another user as well.           *)
C18_EdgeBackedByMintedInvite ==
    \A a \in UserIds : \A b \in FriendsOf(a) :
        \E p \in minted :
            /\ p[2] \in {a, b}
            /\ p[1] \in DOMAIN INVITES
            /\ \/ INVITES[p[1]] = p[2]
               \/ \E q \in minted : q[1] = p[1] /\ q[2] # p[2]

(* 1 and 8 are friends through a code that createInvite has since given to  *)
(* user 0, the only entry of the ledger                                      *)
C18_Witness ==
    /\ NoAcceptRunning
    /\ Friends(1, 8)
    /\ DOMAIN INVITES = {"c1"}
    /\ INVITES["c1"] = 0
    /\ minted = {<<"c1", 1>>, <<"c1", 0>>}

(* C19: the step of getFriends(u) and every step of getFriendsPositions(u)   *)
(* leave USERS, LOCATIONS, FRIENDS and INVITES unchanged; a user who is not  *)
(* a key of FRIENDS is not one afterwards.                                   *)
C19_ReadsArePure ==
    [][(\/ resp'.op \in {"friends", "friends_locations"}
        \/ \E t \in Workers :
              frame'[t].op = "friends_locations" /\ frame'[t] # frame[t])
       => /\ UNCHANGED <<USERS, LOCATIONS, FRIENDS, INVITES>>
          /\ \A u \in UserIds :
                u \notin DOMAIN FRIENDS => u \notin DOMAIN FRIENDS']_vars

(* the empty answer to a getFriendsPositions of a user who has neither a     *)
(* profile nor an entry in FRIENDS, other users having one                   *)
C19_Witness ==
    /\ resp.op = "friends_locations"
    /\ resp.status = 200
    /\ resp.body = <<>>
    /\ resp.user_id \notin DOMAIN FRIENDS
    /\ resp.user_id \notin DOMAIN USERS
    /\ FRIENDS # <<>>

====
